---- MODULE Spec2Model ----
\* A model of the flo graph (src/flo.go): boundary IOs, components, connections,
\* the operations that mutate them, Render, and the mutex that guards them.  An object (a port, a component) is
\* identified with its uuid; connection ids are drawn from a finite pool and a
\* fresh id is one that nothing in the graph still holds.
EXTENDS Integers, Sequences, FiniteSets, TLC

\* ---------------------------------------------------------------- bounds ----
\* Size of the pool of connection ids uuid.New() draws from.
MaxConns == 2
\* Number of goroutines that call the flo's methods concurrently.
NumThreads == 2

\* ------------------------------------------------------------- universe ----
\* uuid.Nil for component ids, io ids and nil pointers.
Nil == "nil"
\* uuid.Nil for connection ids.
NilConn == 0
\* f.ID
FloID == "flo"
\* An io id that no owner carries.
GhostIO == "ghost"

ComponentIOTypeIN == "IN"
ComponentIOTypeOUT == "OUT"

\* A parent id other than the flo's, as a caller may pass to NewComponentIO.
ForeignID == "other"

\* The caller goroutines, and a goroutine that is in no call.
Threads == 1..NumThreads
Idle == [m |-> "none", at |-> "idle"]

\* The component objects the caller has built with NewComponent.
CompIDs == {"A", "B"}
\* The io objects the caller has built with NewComponentIO for the flo.
FloPorts == {"f_in", "f_out", "f_dup", "f_err"}

\* Component.IOs: INs in parameter order, then OUTs in return order.
CompIOs ==
    [c \in CompIDs |->
        IF c = "A" THEN <<"a_i", "a_o", "a_e">>
        ELSE <<"b_i", "b_j", "b_o">>]

CompPorts == {"a_i", "a_o", "a_e", "b_i", "b_j", "b_o"}
Ports == FloPorts \cup CompPorts

\* ComponentIO.Type, fixed at creation.
Type ==
    [p \in Ports |->
        IF p \in {"f_in", "a_i", "b_i", "b_j"} THEN ComponentIOTypeIN
        ELSE ComponentIOTypeOUT]

\* ComponentIO.RType, fixed at creation.
RType ==
    [p \in Ports |->
        IF p \in {"f_in", "b_i"} THEN "any"
        ELSE IF p \in {"f_err", "a_e"} THEN "error"
        ELSE "int"]

\* ComponentIO.Name at creation: "" for a component IN, the hash name for a
\* component OUT, the caller's name for a flo io.
InitName ==
    [p \in Ports |->
        CASE p = "f_in" -> "in"
          [] p \in {"f_out", "f_dup"} -> "result"
          [] p = "f_err" -> "err"
          [] p = "a_o" -> "ioA"
          [] p = "a_e" -> "ioAe"
          [] p = "b_o" -> "ioB"
          [] OTHER -> ""]

\* ComponentIO.IsError: the type is the error interface.
IsError(p) == RType[p] = "error"

\* fmt.Sprintf("%v", reflect.Zero(t).Interface())
ZeroOf(t) == IF t = "int" THEN "0" ELSE "<nil>"

\* reflect.Type.AssignableTo: identical types, or the target is an interface
\* the source implements.
AssignableTo(t, u) == t = u \/ u = "any"

\* --------------------------------------------------------------- errors ----
ErrMissingIO == "missing io"
ErrIOExists == "io with same name and type already exists"
ErrInvalidID == "invalid id"
ErrIONotFound == "flo io id not found"
ErrIOHasConnections == "flo io id has connections"
ErrMissingComponent == "missing component"
ErrComponentExists == "component id already exists"
ErrComponentHasConnections == "component id has connections"
ErrGhostIn == "misconfigured connection: missing ingoing component"
ErrGhostOut == "misconfigured connection: missing outgoing component"
\* The Go runtime's fatal error for a recursion that never returns.
ErrStackOverflow == "fatal error: stack overflow"
ErrInvalidOutComponent == "invalid out component id"
ErrInvalidOutIO == "invalid out component io id"
ErrInvalidInComponent == "invalid in component id"
ErrInvalidInIO == "invalid in component io id"
ErrNoOutComponent == "no out component id found in flo"
ErrNoOutIO == "no component io id found on out component id"
ErrNoInComponent == "no in component id found in flo"
ErrNoInIO == "no component io id found on in component id"
ErrSelf == "component id cannot connect to itself"
ErrOutNotOut == "out component io id is not of type out"
ErrFloOutNotIn == "out flo io id is not of type in"
ErrInNotIn == "out component io id is not of type in"
ErrFloInNotOut == "out flo io id is not of type out"
ErrAlreadyConnected == "in component io id already has a connection"
ErrDuplicate == "in component id already has a connection with out component id"
ErrNotAssignable == "out component io id cannot be assigned to component io id"
ErrInvalidConnection == "invalid connnection id"
ErrUnknownConnection == "unknown connection id"

\* ---------------------------------------------------------------- state ----
VARIABLES
    IOs,              \* f.IOs: the boundary ios, in insertion order
    Components,       \* the keys of f.Components
    Name,             \* ComponentIO.Name of every io object
    Connections,      \* ComponentIO.Connections of every io object
    connectionIndex,  \* f.connectionIndex
    ParentID,         \* ComponentIO.ParentID of every io built for the flo
    last,             \* the last call: operation, argument, returned error,
                      \* for ConnectComponent the rules the request broke
                      \* and, on success, the id of the new connection and
                      \* the name the in io had; for Render the text it wrote
    mu,               \* f.mu: TRUE while locked
    pc                \* where each caller goroutine stands in its call

vars ==
    <<IOs, Components, Name, Connections, connectionIndex, ParentID, last,
      mu, pc>>
graph == <<IOs, Components, Name, Connections, connectionIndex, ParentID>>

ConnIDs == 1..MaxConns

Range(s) == {s[i] : i \in DOMAIN s}

\* lo.Reject on a connection list: drop the connections with this id.
RejectID(conns, id) == SelectSeq(conns, LAMBDA c : c.ID # id)

\* lo.Reject on f.IOs: drop the io with this id.
RejectIO(ios, id) == SelectSeq(ios, LAMBDA p : p # id)

\* IOs.GetByID: found iff the id is not nil and some io of the list has it.
GetByID(ios, id) == id # Nil /\ id \in Range(ios)

\* HasConnections that looks at the IN ios only.
HasConnectionsOfINs(ios) ==
    \E i \in DOMAIN ios :
        Type[ios[i]] = ComponentIOTypeIN /\ Len(Connections[ios[i]]) > 0

\* IOs.HasConnections: some io of the list holds a connection.
HasConnections(ios) == \E i \in DOMAIN ios : Len(Connections[ios[i]]) > 0

\* The ids a fresh uuid must differ from: every id the graph still holds.
UsedIDs ==
    DOMAIN connectionIndex
        \cup UNION {{c.ID : c \in Range(Connections[p])} : p \in Ports}

\* NewComponentConnect: the connection object, given its fresh id.
NewComponentConnect(id, oc, oio, ic, iio) ==
    [ID |-> id, OutComponentID |-> oc, OutComponentIOID |-> oio,
     InComponentID |-> ic, InComponentIOID |-> iio]

\* What a call that creates no connection leaves as the connection it made.
NoneMade == [ID |-> NilConn, was |-> ""]

\* What a call that renders nothing hands to the writer.
NoOut == [clause |-> <<>>, calls |-> <<>>, ret |-> <<>>]

\* NewFlo: no ios, no components, no connections, the mutex unlocked; the
\* objects the caller has built are untouched and no goroutine is in a call.
NewFlo ==
    /\ IOs = <<>>
    /\ Components = {}
    /\ Name = InitName
    /\ Connections = [p \in Ports |-> <<>>]
    /\ connectionIndex = [i \in {} |-> Nil]
    /\ mu = FALSE
    /\ pc = [t \in Threads |-> Idle]

\* The caller built every flo io with the flo's id as its parent, as the
\* tests do.
Init ==
    /\ NewFlo
    /\ ParentID = [p \in FloPorts |-> FloID]
    /\ last = [op |-> "NewFlo", arg |-> Nil, err |-> "", rules |-> {},
               out |-> NoOut, made |-> NoneMade]

\* What a call leaves behind for the caller: the operation, its id or object
\* argument, and the error it returned ("" for nil).
Ret(op, arg, err) ==
    [op |-> op, arg |-> arg, err |-> err, rules |-> {}, out |-> NoOut,
     made |-> NoneMade]

\* ------------------------------------------------------------ AddIO ----
\* An AddIO that refuses only an io object the flo already holds.
AddIOUnlessHeld(io) ==
    IF io = Nil
    THEN /\ last' = Ret("AddIO", io, ErrMissingIO)
         /\ UNCHANGED graph
    ELSE IF io \in Range(IOs)
    THEN /\ last' = Ret("AddIO", io, ErrIOExists)
         /\ UNCHANGED graph
    ELSE /\ ParentID' = [ParentID EXCEPT ![io] = FloID]
         /\ IOs' = Append(IOs, io)
         /\ last' = Ret("AddIO", io, "")
         /\ UNCHANGED <<Components, Name, Connections, connectionIndex>>

AddIO(io) ==
    IF io = Nil
    THEN /\ last' = Ret("AddIO", io, ErrMissingIO)
         /\ UNCHANGED graph
    ELSE IF \E i \in DOMAIN IOs :
                Name[IOs[i]] = Name[io] /\ Type[IOs[i]] = Type[io]
    THEN /\ last' = Ret("AddIO", io, ErrIOExists)
         /\ UNCHANGED graph
    ELSE /\ ParentID' = [ParentID EXCEPT ![io] = FloID]
         /\ IOs' = Append(IOs, io)
         /\ last' = Ret("AddIO", io, "")
         /\ UNCHANGED <<Components, Name, Connections, connectionIndex>>

\* ------------------------------------------------------------ DeleteIO ----
DeleteIO(id) ==
    IF id = Nil
    THEN /\ last' = Ret("DeleteIO", id, ErrInvalidID)
         /\ UNCHANGED graph
    ELSE IF id \notin Range(IOs)
    THEN /\ last' = Ret("DeleteIO", id, ErrIONotFound)
         /\ UNCHANGED graph
    ELSE IF Len(Connections[id]) > 0
    THEN /\ last' = Ret("DeleteIO", id, ErrIOHasConnections)
         /\ UNCHANGED graph
    ELSE /\ IOs' = RejectIO(IOs, id)
         /\ last' = Ret("DeleteIO", id, "")
         /\ UNCHANGED <<Components, Name, Connections, connectionIndex,
                        ParentID>>

\* -------------------------------------------------------- AddComponent ----
\* An AddComponent that stores the component whether or not its id is taken.
AddComponentOverwrite(c) ==
    IF c = Nil
    THEN /\ last' = Ret("AddComponent", c, ErrMissingComponent)
         /\ UNCHANGED graph
    ELSE /\ Components' = Components \cup {c}
         /\ last' = Ret("AddComponent", c, "")
         /\ UNCHANGED <<IOs, Name, Connections, connectionIndex, ParentID>>

AddComponent(c) ==
    IF c = Nil
    THEN /\ last' = Ret("AddComponent", c, ErrMissingComponent)
         /\ UNCHANGED graph
    ELSE IF c \in Components
    THEN /\ last' = Ret("AddComponent", c, ErrComponentExists)
         /\ UNCHANGED graph
    ELSE /\ Components' = Components \cup {c}
         /\ last' = Ret("AddComponent", c, "")
         /\ UNCHANGED <<IOs, Name, Connections, connectionIndex,
                        ParentID>>

\* ----------------------------------------------------- DeleteComponent ----
DeleteComponent(id) ==
    IF id = Nil
    THEN /\ last' = Ret("DeleteComponent", id, ErrInvalidID)
         /\ UNCHANGED graph
    ELSE IF id \in Components /\ HasConnections(CompIOs[id])
    THEN /\ last' = Ret("DeleteComponent", id, ErrComponentHasConnections)
         /\ UNCHANGED graph
    ELSE /\ Components' = Components \ {id}
         /\ last' = Ret("DeleteComponent", id, "")
         /\ UNCHANGED <<IOs, Name, Connections, connectionIndex,
                        ParentID>>

\* ----------------------------------------------------- ConnectComponent ----
\* The io list a component id names: f.IOs for the flo itself, else the
\* component's own IOs.
OwnerIOs(c) == IF c = FloID THEN IOs ELSE CompIOs[c]

\* The four uuid.Nil checks that open ConnectComponent.
NilError(oc, oio, ic, iio) ==
    IF oc = Nil THEN ErrInvalidOutComponent
    ELSE IF oio = Nil THEN ErrInvalidOutIO
    ELSE IF ic = Nil THEN ErrInvalidInComponent
    ELSE IF iio = Nil THEN ErrInvalidInIO
    ELSE ""

\* Lookup of the out side, then of the in side.
ResolveError(oc, oio, ic, iio) ==
    IF oc # FloID /\ oc \notin Components THEN ErrNoOutComponent
    ELSE IF ~GetByID(OwnerIOs(oc), oio) THEN ErrNoOutIO
    ELSE IF ic # FloID /\ ic \notin Components THEN ErrNoInComponent
    ELSE IF ~GetByID(OwnerIOs(ic), iio) THEN ErrNoInIO
    ELSE ""

\* A self check that never fires.
SelfLoopIgnored(oc, ic) == FALSE

\* "We can't handle cyclic right now."
SelfLoop(oc, ic) == oc = ic

\* Direction checks that forget the inversion for the flo's own ios.
DirectionErrorNoInversion(oc, oio, ic, iio) ==
    IF Type[oio] # ComponentIOTypeOUT THEN ErrOutNotOut
    ELSE IF Type[iio] # ComponentIOTypeIN THEN ErrInNotIn
    ELSE ""

\* The direction checks: a flo io is used with the inverse direction.
DirectionError(oc, oio, ic, iio) ==
    IF oc # FloID /\ Type[oio] # ComponentIOTypeOUT THEN ErrOutNotOut
    ELSE IF oc = FloID /\ Type[oio] # ComponentIOTypeIN THEN ErrFloOutNotIn
    ELSE IF ic # FloID /\ Type[iio] # ComponentIOTypeIN THEN ErrInNotIn
    ELSE IF ic = FloID /\ Type[iio] # ComponentIOTypeOUT THEN ErrFloInNotOut
    ELSE ""

\* A connection count check that never fires.
AlreadyConnectedIgnored(iio) == FALSE

\* len(inComponentIO.Connections) > 0
AlreadyConnected(iio) == Len(Connections[iio]) > 0

\* Some role-correct io of the out side already holds a connection that ends
\* at this in io.
DuplicateEdge(oc, iio) ==
    \E i \in DOMAIN OwnerIOs(oc) :
        LET io == OwnerIOs(oc)[i] IN
        /\ ~(oc # FloID /\ Type[io] # ComponentIOTypeOUT)
        /\ ~(oc = FloID /\ Type[io] # ComponentIOTypeIN)
        /\ \E k \in DOMAIN Connections[io] :
                Connections[io][k].InComponentIOID = iio

\* The checks with the directions looked at before the self check.
RuleErrorDirectionFirst(oc, oio, ic, iio) ==
    IF DirectionError(oc, oio, ic, iio) # ""
    THEN DirectionError(oc, oio, ic, iio)
    ELSE IF SelfLoop(oc, ic) THEN ErrSelf
    ELSE IF AlreadyConnected(iio) THEN ErrAlreadyConnected
    ELSE IF DuplicateEdge(oc, iio) THEN ErrDuplicate
    ELSE IF ~AssignableTo(RType[oio], RType[iio]) THEN ErrNotAssignable
    ELSE ""

\* The checks on two resolved ios, in the order of the code.
RuleError(oc, oio, ic, iio) ==
    IF SelfLoop(oc, ic) THEN ErrSelf
    ELSE IF DirectionError(oc, oio, ic, iio) # ""
    THEN DirectionError(oc, oio, ic, iio)
    ELSE IF AlreadyConnected(iio) THEN ErrAlreadyConnected
    ELSE IF DuplicateEdge(oc, iio) THEN ErrDuplicate
    ELSE IF ~AssignableTo(RType[oio], RType[iio]) THEN ErrNotAssignable
    ELSE ""

\* The error ConnectComponent returns, "" for none.
ConnectError(oc, oio, ic, iio) ==
    IF NilError(oc, oio, ic, iio) # "" THEN NilError(oc, oio, ic, iio)
    ELSE IF ResolveError(oc, oio, ic, iio) # ""
    THEN ResolveError(oc, oio, ic, iio)
    ELSE RuleError(oc, oio, ic, iio)

\* An append that puts the new connection first.
PrependOut(conns, conn) == <<conn>> \o conns

\* outComponentIO.Connections = append(outComponentIO.Connections, conn)
AppendOut(conns, conn) == Append(conns, conn)

\* inComponentIO.Name = outComponentIO.Name
AdoptName(oio, iio) == [Name EXCEPT ![iio] = Name[oio]]

\* The rules a request breaks in the current state, each judged on its own
\* (a direction, a connection count or a type only of an io that resolves).
OutResolves(oc, oio) ==
    /\ oc = FloID \/ oc \in Components
    /\ GetByID(OwnerIOs(oc), oio)
InResolves(ic, iio) ==
    /\ ic = FloID \/ ic \in Components
    /\ GetByID(OwnerIOs(ic), iio)
BrokenRules(oc, oio, ic, iio) ==
    {r \in {"nil", "out-resolve", "in-resolve", "self", "out-direction",
            "in-direction", "connected", "duplicate", "assignable"} :
        CASE r = "nil" -> Nil \in {oc, oio, ic, iio}
          [] r = "out-resolve" -> ~OutResolves(oc, oio)
          [] r = "in-resolve" -> ~InResolves(ic, iio)
          [] r = "self" -> oc = ic
          [] r = "out-direction" ->
                /\ OutResolves(oc, oio)
                /\ Type[oio] # (IF oc = FloID THEN ComponentIOTypeIN
                                ELSE ComponentIOTypeOUT)
          [] r = "in-direction" ->
                /\ InResolves(ic, iio)
                /\ Type[iio] # (IF ic = FloID THEN ComponentIOTypeOUT
                                ELSE ComponentIOTypeIN)
          [] r = "connected" ->
                InResolves(ic, iio) /\ Len(Connections[iio]) > 0
          [] r = "duplicate" ->
                /\ OutResolves(oc, oio)
                /\ InResolves(ic, iio)
                /\ \E p \in Range(OwnerIOs(oc)) :
                      \E c \in Range(Connections[p]) :
                          c.InComponentIOID = iio
          [] r = "assignable" ->
                /\ OutResolves(oc, oio)
                /\ InResolves(ic, iio)
                /\ ~AssignableTo(RType[oio], RType[iio])}

ConnectComponent(oc, oio, ic, iio) ==
    LET err == ConnectError(oc, oio, ic, iio) IN
    IF err # ""
    THEN /\ last' = [op |-> "ConnectComponent", arg |-> Nil, err |-> err,
                     rules |-> BrokenRules(oc, oio, ic, iio), out |-> NoOut,
                     made |-> NoneMade]
         /\ UNCHANGED graph
    ELSE /\ ConnIDs \ UsedIDs # {}
         /\ LET id == CHOOSE i \in ConnIDs \ UsedIDs :
                        \A j \in ConnIDs \ UsedIDs : i <= j
                conn == NewComponentConnect(id, oc, oio, ic, iio)
            IN /\ Connections' =
                      [Connections EXCEPT
                          ![oio] = AppendOut(@, conn),
                          ![iio] = Append(@, conn)]
               /\ connectionIndex' =
                      [i \in DOMAIN connectionIndex \cup {id} |->
                          IF i = id THEN conn ELSE connectionIndex[i]]
               /\ Name' = AdoptName(oio, iio)
               /\ last' = [op |-> "ConnectComponent", arg |-> Nil,
                           err |-> "",
                           rules |-> BrokenRules(oc, oio, ic, iio),
                           out |-> NoOut,
                           made |-> [ID |-> id, was |-> Name[iio]]]
         /\ UNCHANGED <<IOs, Components, ParentID>>

\* ----------------------------------------------------- DeleteConnection ----
\* defer delete(f.connectionIndex, connectionID)
DeleteFromIndex(id) ==
    [i \in DOMAIN connectionIndex \ {id} |-> connectionIndex[i]]

DeleteConnection(id) ==
    IF id = NilConn
    THEN /\ last' = Ret("DeleteConnection", id, ErrInvalidConnection)
         /\ UNCHANGED graph
    ELSE IF id \notin DOMAIN connectionIndex
    THEN /\ last' = Ret("DeleteConnection", id, ErrUnknownConnection)
         /\ UNCHANGED graph
    ELSE LET conn == connectionIndex[id] IN
         \* From here on every return runs the deferred delete.
         /\ connectionIndex' = DeleteFromIndex(id)
         /\ UNCHANGED <<IOs, Components, ParentID>>
         /\ IF conn.OutComponentID \notin Components
            THEN /\ last' = Ret("DeleteConnection", id, ErrNoOutComponent)
                 /\ UNCHANGED <<Name, Connections>>
            ELSE IF ~GetByID(CompIOs[conn.OutComponentID],
                             conn.OutComponentIOID)
            THEN /\ last' = Ret("DeleteConnection", id, ErrNoOutIO)
                 /\ UNCHANGED <<Name, Connections>>
            ELSE IF conn.InComponentID \notin Components
            THEN /\ Connections' =
                        [Connections EXCEPT
                            ![conn.OutComponentIOID] = RejectID(@, id)]
                 /\ last' = Ret("DeleteConnection", id, ErrNoInComponent)
                 /\ UNCHANGED Name
            ELSE IF ~GetByID(CompIOs[conn.InComponentID],
                             conn.InComponentIOID)
            THEN /\ Connections' =
                        [Connections EXCEPT
                            ![conn.OutComponentIOID] = RejectID(@, id)]
                 /\ last' = Ret("DeleteConnection", id, ErrNoInIO)
                 /\ UNCHANGED Name
            ELSE /\ Connections' =
                        [Connections EXCEPT
                            ![conn.OutComponentIOID] = RejectID(@, id),
                            ![conn.InComponentIOID] = <<>>]
                 /\ Name' = [Name EXCEPT ![conn.InComponentIOID] = ""]
                 /\ last' = Ret("DeleteConnection", id, "")

\* --------------------------------------------------------------- Render ----
\* IOs.SeparateINsOUTs: the IN ios and the OUT ios of a list, each in order.
INsOf(ios) == SelectSeq(ios, LAMBDA p : Type[p] = ComponentIOTypeIN)
OUTsOf(ios) == SelectSeq(ios, LAMBDA p : Type[p] = ComponentIOTypeOUT)

\* The connections a list of ios holds, io after io: the order in which the
\* nested loops `for _, in := range ins { for _, conn := range in.Connections`
\* meet them.
RECURSIVE ConnsOf(_)
ConnsOf(ios) ==
    IF ios = <<>> THEN <<>>
    ELSE Connections[Head(ios)] \o ConnsOf(Tail(ios))

\* hasErrorReturn: set where the result list binds err, that is for an error
\* OUT that holds no connection.
HasErrorReturn(c) ==
    \E i \in DOMAIN OUTsOf(CompIOs[c]) :
        /\ Len(Connections[OUTsOf(CompIOs[c])[i]]) = 0
        /\ IsError(OUTsOf(CompIOs[c])[i])

\* The values the guard `if err != nil { return ... }` returns: err for an
\* error OUT of the flo, the zero value of its type for any other.
GuardReturns ==
    [i \in DOMAIN OUTsOf(IOs) |->
        IF IsError(OUTsOf(IOs)[i]) THEN "err"
        ELSE ZeroOf(RType[OUTsOf(IOs)[i]])]

\* The call statement of component c: the result list (the name of a connected
\* OUT, err for an unconnected error OUT, else the blank), the arguments (the
\* current names of the INs) and the guard that follows when hasErrorReturn.
CallOf(c) ==
    [comp |-> c,
     guard |-> [has |-> HasErrorReturn(c),
                returns |-> IF HasErrorReturn(c) THEN GuardReturns ELSE <<>>],
     results |->
        [i \in DOMAIN OUTsOf(CompIOs[c]) |->
            LET out == OUTsOf(CompIOs[c])[i] IN
            IF Len(Connections[out]) > 0 THEN Name[out]
            ELSE IF IsError(out) THEN "err" ELSE "_"],
     args |->
        [i \in DOMAIN INsOf(CompIOs[c]) |-> Name[INsOf(CompIOs[c])[i]]]]

\* A traversal that emits a component without marking it rendered.
EmitUnmarked(c, st) == [st EXCEPT !.calls = Append(@, CallOf(c))]

\* The tail of RenderComponent: the call is emitted, then
\* rendered[c.ID] = struct{}{}.
Emit(c, st) ==
    [st EXCEPT !.calls = Append(@, CallOf(c)), !.rendered = @ \cup {c}]

\* An upstream loop that skips every connection.
SkipAll(conn, st) == TRUE

\* The two `continue`s of the upstream loop: the producer is the flo, or is
\* rendered already.
SkipUpstream(conn, st) ==
    \/ conn.OutComponentID = FloID
    \/ conn.OutComponentID \in st.rendered

\* RenderComponent, as a function of the traversal state st = [err, rendered,
\* calls] and of the components whose RenderComponent frames are on the call
\* stack.  A component met again while its own frame is on the stack is not in
\* rendered and is entered again with the same unrendered chain below it: the
\* recursion never returns and the Go runtime ends the process.
RECURSIVE RenderComponent(_, _, _)
RECURSIVE RenderUpstream(_, _, _, _)
RenderComponent(c, st, stack) ==
    IF c = Nil THEN [st EXCEPT !.err = ErrMissingComponent]
    ELSE IF c \in st.rendered THEN st
    ELSE IF c \in stack THEN [st EXCEPT !.err = ErrStackOverflow]
    ELSE LET after == RenderUpstream(ConnsOf(INsOf(CompIOs[c])), 1, st,
                                     stack \cup {c})
         IN IF after.err # "" THEN after ELSE Emit(c, after)

\* The loop of RenderComponent over the connections of its IN ios, from the
\* i-th on.
RenderUpstream(conns, i, st, stack) ==
    IF i > Len(conns) THEN st
    ELSE IF SkipUpstream(conns[i], st)
    THEN RenderUpstream(conns, i + 1, st, stack)
    ELSE IF conns[i].OutComponentID \notin Components
    THEN [st EXCEPT !.err = ErrGhostOut]
    ELSE LET after == RenderComponent(conns[i].OutComponentID, st, stack)
         IN IF after.err # "" THEN after
            ELSE RenderUpstream(conns, i + 1, after, stack)

\* What Render adds to an error of RenderComponent.
FailedToRender(err) ==
    IF err = ErrStackOverflow THEN err
    ELSE "failed to render component: " \o err

\* The first loop of Render: the consumers of the flo's IN ios, from the i-th
\* connection on.
RECURSIVE RenderBoundary(_, _, _)
RenderBoundary(conns, i, st) ==
    IF i > Len(conns) THEN st
    ELSE IF conns[i].InComponentID \notin Components
    THEN [st EXCEPT !.err = ErrGhostIn]
    ELSE LET after == RenderComponent(conns[i].InComponentID, st, {})
         IN IF after.err # ""
            THEN [after EXCEPT !.err = FailedToRender(@)]
            ELSE RenderBoundary(conns, i + 1, after)

\* The second loop of Render: the components not rendered yet, in the order
\* the range over the map f.Components yields them, from the i-th on.
RECURSIVE RenderOrphans(_, _, _)
RenderOrphans(order, i, st) ==
    IF i > Len(order) THEN st
    ELSE IF order[i] \in st.rendered THEN RenderOrphans(order, i + 1, st)
    ELSE LET after == RenderComponent(order[i], st, {})
         IN IF after.err # ""
            THEN [after EXCEPT !.err = FailedToRender(@)]
            ELSE RenderOrphans(order, i + 1, after)

\* The return statement: for each OUT io of the flo its name when connected,
\* nil for an unconnected error, else the zero value of its type.
ReturnOf ==
    [i \in DOMAIN OUTsOf(IOs) |->
        LET out == OUTsOf(IOs)[i] IN
        IF Len(Connections[out]) > 0 THEN Name[out]
        ELSE IF IsError(out) THEN "nil" ELSE ZeroOf(RType[out])]

\* The return clause of the emitted function: nothing without an OUT io; with
\* one, its bare type, after which control falls through to the statement
\* that adds the parenthesised list of the types of all OUT ios.
ReturnClause ==
    LET outs == OUTsOf(IOs)
        list == [paren |-> TRUE,
                 types |-> [i \in DOMAIN outs |-> RType[outs[i]]]]
    IN IF Len(outs) = 0 THEN <<>>
       ELSE IF Len(outs) = 1
       THEN <<[paren |-> FALSE, types |-> <<RType[outs[1]]>>], list>>
       ELSE <<list>>

\* A render that visits the leftover components before the consumers of the
\* boundary.
OrphansFirst(order) ==
    LET st0 == [err |-> "", rendered |-> {}, calls |-> <<>>]
        st1 == RenderOrphans(order, 1, st0)
    IN IF st1.err # "" THEN st1
       ELSE RenderBoundary(ConnsOf(INsOf(IOs)), 1, st1)

\* The two loops of Render, the second one ranging over the map in `order`.
RenderPasses(order) ==
    LET st0 == [err |-> "", rendered |-> {}, calls |-> <<>>]
        st1 == RenderBoundary(ConnsOf(INsOf(IOs)), 1, st0)
    IN IF st1.err # "" THEN st1 ELSE RenderOrphans(order, 1, st1)

\* The orders in which a range over the map f.Components can yield its
\* entries: Go leaves the iteration order of a map unspecified.
MapOrders ==
    {s \in [1..Cardinality(Components) -> Components] :
        \A c \in Components : \E i \in DOMAIN s : s[i] = c}

\* What Render leaves behind: the text reaches the writer only when both loops
\* went through.
RenderResult(order) ==
    LET st == RenderPasses(order) IN
    [op |-> "Render", arg |-> Nil, err |-> st.err, rules |-> {},
     out |-> IF st.err # "" THEN NoOut
             ELSE [clause |-> ReturnClause, calls |-> st.calls,
                   ret |-> ReturnOf],
     made |-> NoneMade]

\* A render that uses up the connection lists it walks.
RenderDraining(order) ==
    /\ last' = RenderResult(order)
    /\ Connections' = [p \in DOMAIN Connections |-> <<>>]
    /\ UNCHANGED <<IOs, Components, Name, connectionIndex, ParentID>>

Render(order) ==
    /\ last' = RenderResult(order)
    /\ UNCHANGED graph

\* ------------------------------------------------------------- requests ----
\* The flo ios and the component ios that the requests of the runs with every
\* error input name: one boundary IN, one boundary OUT, and one IN and one OUT
\* per component.
BoundaryArgs == {"f_in", "f_out"}
PortArgs == {"a_i", "a_o", "b_i", "b_o"}

\* The component ids a caller passes: nil, the flo, a component object
\* (registered or not).
CompArgs == {Nil, FloID} \cup CompIDs

\* One side of a ConnectComponent request: an owner with one of its own ios
\* or an io it does not carry.
Sides ==
    {<<FloID, p>> : p \in BoundaryArgs \cup {GhostIO}}
        \cup UNION {{<<c, p>> : p \in (Range(CompIOs[c]) \cap PortArgs)
                                        \cup {GhostIO}} : c \in CompIDs}

\* The requests with a nil id: one per position, and all four at once.
NilRequests ==
    {<<Nil, "a_o", "B", "b_i">>, <<"A", Nil, "B", "b_i">>,
     <<"A", "a_o", Nil, "b_i">>, <<"A", "a_o", "B", Nil>>,
     <<Nil, Nil, Nil, Nil>>}

Requests == {<<o[1], o[2], i[1], i[2]>> : o \in Sides, i \in Sides}
                \cup NilRequests

\* The connection ids a caller passes: nil, an id of the pool, an id that was
\* never issued.
ConnArgs == 0..(MaxConns + 1)

\* The process runs until a fatal error of the runtime ends it.
Alive == last.err # ErrStackOverflow

\* A call of a run with a single caller: the process is alive, and the call
\* finds the mutex unlocked and leaves it unlocked.
Sequential == Alive /\ UNCHANGED <<mu, pc>>

Next ==
    \/ Sequential /\ \E io \in BoundaryArgs \cup {Nil} : AddIO(io)
    \/ Sequential /\ \E id \in BoundaryArgs \cup {Nil} : DeleteIO(id)
    \/ Sequential /\ \E c \in CompIDs \cup {Nil} : AddComponent(c)
    \/ Sequential /\ \E id \in CompArgs : DeleteComponent(id)
    \/ Sequential /\ \E r \in Requests :
                        ConnectComponent(r[1], r[2], r[3], r[4])
    \/ Sequential /\ \E id \in ConnArgs : DeleteConnection(id)
    \/ Sequential /\ \E order \in MapOrders : Render(order)

Spec == Init /\ [][Next]_vars

\* ------------------------------------------------- well-formed requests ----
\* Runs over every object of the universe whose requests are restricted to
\* non-nil ids and, for ConnectComponent, to an io of the out owner that
\* produces and an io of another owner that consumes.
Owners == {FloID} \cup CompIDs
OwnedBy(c) == IF c = FloID THEN FloPorts ELSE Range(CompIOs[c])
WideRequests ==
    {r \in Owners \X Ports \X Owners \X Ports :
        /\ r[1] # r[3]
        /\ r[2] \in OwnedBy(r[1])
        /\ r[4] \in OwnedBy(r[3])
        /\ Type[r[2]] = (IF r[1] = FloID THEN ComponentIOTypeIN
                         ELSE ComponentIOTypeOUT)
        /\ Type[r[4]] = (IF r[3] = FloID THEN ComponentIOTypeOUT
                         ELSE ComponentIOTypeIN)}

\* Dependency runs: both components with every io of theirs, between the
\* boundary ios of those runs.
DepPorts == BoundaryArgs \cup PortArgs \cup {"b_j"}
DepRequests == {r \in WideRequests : {r[2], r[4]} \subseteq DepPorts}

NextDeps ==
    \/ Sequential /\ \E io \in BoundaryArgs : AddIO(io)
    \/ Sequential /\ \E id \in BoundaryArgs : DeleteIO(id)
    \/ Sequential /\ \E c \in CompIDs : AddComponent(c)
    \/ Sequential /\ \E id \in CompIDs : DeleteComponent(id)
    \/ Sequential /\ \E r \in DepRequests :
                        ConnectComponent(r[1], r[2], r[3], r[4])
    \/ Sequential /\ \E id \in ConnIDs : DeleteConnection(id)
    \/ Sequential /\ \E order \in MapOrders : Render(order)

SpecDeps == Init /\ [][NextDeps]_vars

\* Boundary runs: every io built for the flo, one of them with another parent
\* id than the flo's, around the single component A.
InitIO ==
    /\ NewFlo
    /\ ParentID = [p \in FloPorts |-> IF p = "f_dup" THEN ForeignID ELSE FloID]
    /\ last = [op |-> "NewFlo", arg |-> Nil, err |-> "", rules |-> {},
               out |-> NoOut, made |-> NoneMade]

IOArgs == {"f_in", "f_out", "f_dup"}
IOPorts == IOArgs \cup {"a_i", "a_o"}
IORequests == {r \in WideRequests : {r[2], r[4]} \subseteq IOPorts}

NextIO ==
    \/ Sequential /\ \E io \in IOArgs \cup {Nil} : AddIO(io)
    \/ Sequential /\ \E id \in IOArgs \cup {Nil} : DeleteIO(id)
    \/ Sequential /\ AddComponent("A")
    \/ Sequential /\ DeleteComponent("A")
    \/ Sequential /\ \E r \in IORequests :
                        ConnectComponent(r[1], r[2], r[3], r[4])
    \/ Sequential /\ \E id \in ConnIDs : DeleteConnection(id)
    \/ Sequential /\ \E order \in MapOrders : Render(order)

SpecIO == InitIO /\ [][NextIO]_vars

\* Error runs: a component with an error OUT, a consumer of it in the other
\* component, and an int OUT and an error OUT of the flo.
ErrArgs == {"f_out", "f_err"}
ErrPorts == ErrArgs \cup {"a_o", "a_e", "b_i"}
ErrRequests == {r \in WideRequests : {r[2], r[4]} \subseteq ErrPorts}

NextErr ==
    \/ Sequential /\ \E io \in ErrArgs : AddIO(io)
    \/ Sequential /\ \E id \in ErrArgs : DeleteIO(id)
    \/ Sequential /\ \E c \in CompIDs : AddComponent(c)
    \/ Sequential /\ \E id \in CompIDs : DeleteComponent(id)
    \/ Sequential /\ \E r \in ErrRequests :
                        ConnectComponent(r[1], r[2], r[3], r[4])
    \/ Sequential /\ \E id \in ConnIDs : DeleteConnection(id)
    \/ Sequential /\ \E order \in MapOrders : Render(order)

SpecErr == Init /\ [][NextErr]_vars

\* ------------------------------------------------------ concurrent calls ----
\* The exported methods of Flo that read or write the graph.
Methods ==
    {"AddIO", "DeleteIO", "AddComponent", "DeleteComponent",
     "ConnectComponent", "DeleteConnection", "Render", "RenderComponent",
     "Symbols"}

\* The methods whose body opens with f.mu.Lock() and defer f.mu.Unlock():
\* every one but RenderComponent.
LockingMethods == Methods \ {"RenderComponent"}

\* The methods that check their arguments, and may return, before they lock.
CheckingMethods ==
    {"AddIO", "DeleteIO", "AddComponent", "DeleteComponent",
     "ConnectComponent", "DeleteConnection"}

\* A goroutine calls a method: it comes to the method's checks of its
\* arguments, or, in a method without them, to its f.mu.Lock(), or, in a
\* method without one, straight to the statements that use the graph.
Call(t, m) ==
    /\ pc[t] = Idle
    /\ pc' = [pc EXCEPT ![t] =
                [m |-> m,
                 at |-> IF m \in CheckingMethods THEN "check"
                        ELSE IF m \in LockingMethods THEN "lock"
                        ELSE "body"]]
    /\ UNCHANGED <<mu, graph, last>>

\* A nil argument: the method returns before it locks.
ReturnEarly(t) ==
    /\ pc[t].at = "check"
    /\ pc' = [pc EXCEPT ![t] = Idle]
    /\ UNCHANGED <<mu, graph, last>>

\* No nil argument: the method goes on to its f.mu.Lock().
ArgsOK(t) ==
    /\ pc[t].at = "check"
    /\ pc' = [pc EXCEPT ![t].at = "lock"]
    /\ UNCHANGED <<mu, graph, last>>

\* f.mu.Lock(): blocks while the mutex is locked.
Lock(t) ==
    /\ pc[t].at = "lock"
    /\ ~mu
    /\ mu' = TRUE
    /\ pc' = [pc EXCEPT ![t].at = "body"]
    /\ UNCHANGED <<graph, last>>

\* A return that unlocks the mutex in Render and in Symbols only.
ReturnHolding(t) ==
    /\ pc[t].at = "body"
    /\ mu' = IF pc[t].m \in {"Render", "Symbols"} THEN FALSE ELSE mu
    /\ pc' = [pc EXCEPT ![t] = Idle]
    /\ UNCHANGED <<graph, last>>

\* The method returns from the statements that use the graph; the deferred
\* f.mu.Unlock() of a locking method runs.
Return(t) ==
    /\ pc[t].at = "body"
    /\ mu' = IF pc[t].m \in LockingMethods THEN FALSE ELSE mu
    /\ pc' = [pc EXCEPT ![t] = Idle]
    /\ UNCHANGED <<graph, last>>

NextLock ==
    \/ \E t \in Threads : \E m \in Methods : Call(t, m)
    \/ \E t \in Threads : ReturnEarly(t)
    \/ \E t \in Threads : ArgsOK(t)
    \/ \E t \in Threads : Lock(t)
    \/ \E t \in Threads : Return(t)

SpecLock == Init /\ [][NextLock]_vars

\* The calls under a fair scheduler: a goroutine blocked in f.mu.Lock() is
\* not passed over for ever once the mutex keeps becoming free, and a
\* goroutine in a method's statements goes on to the method's return.
SpecLockFair ==
    /\ SpecLock
    /\ \A t \in Threads : SF_vars(Lock(t)) /\ WF_vars(Return(t))

\* =============================================================== claims ====
\* The ios the graph currently reaches: its boundary ios and the ios of its
\* registered components.
LivePorts == Range(IOs) \cup UNION {Range(CompIOs[c]) : c \in Components}

\* The connections held in the Connections lists of the live ios.
Held == UNION {Range(Connections[p]) : p \in LivePorts}

\* The connections held in the Connections list of any io object.
HeldAnywhere == UNION {Range(Connections[p]) : p \in Ports}

\* The connections of the connection index.
Indexed == {connectionIndex[i] : i \in DOMAIN connectionIndex}

\* The ios of an owner, whether or not the graph currently holds them.
PortsOf(c) == IF c = FloID THEN FloPorts ELSE Range(CompIOs[c])

\* A producing io: a boundary IN of the flo or an OUT of a component.
IsProducer(c, p) ==
    /\ c \in {FloID} \cup CompIDs
    /\ p \in PortsOf(c)
    /\ Type[p] = (IF c = FloID THEN ComponentIOTypeIN ELSE ComponentIOTypeOUT)

\* A consuming io: a boundary OUT of the flo or an IN of a component.
IsConsumer(c, p) ==
    /\ c \in {FloID} \cup CompIDs
    /\ p \in PortsOf(c)
    /\ Type[p] = (IF c = FloID THEN ComponentIOTypeOUT ELSE ComponentIOTypeIN)

Consumers == {p \in Ports : \E c \in {FloID} \cup CompIDs : IsConsumer(c, p)}
Producers == {p \in Ports : \E c \in {FloID} \cup CompIDs : IsProducer(c, p)}

\* The rule an error of ConnectComponent reports.
ErrRule(err) ==
    CASE err \in {ErrInvalidOutComponent, ErrInvalidOutIO,
                  ErrInvalidInComponent, ErrInvalidInIO} -> "nil"
      [] err \in {ErrNoOutComponent, ErrNoOutIO} -> "out-resolve"
      [] err \in {ErrNoInComponent, ErrNoInIO} -> "in-resolve"
      [] err = ErrSelf -> "self"
      [] err \in {ErrOutNotOut, ErrFloOutNotIn} -> "out-direction"
      [] err \in {ErrInNotIn, ErrFloInNotOut} -> "in-direction"
      [] err = ErrAlreadyConnected -> "connected"
      [] err = ErrDuplicate -> "duplicate"
      [] err = ErrNotAssignable -> "assignable"
      [] OTHER -> "none"

\* The place of a rule in the order of spec section 4.3, where resolving a
\* side and checking its direction are one step.
StatedRank(r) ==
    CASE r = "nil" -> 1
      [] r \in {"out-resolve", "out-direction"} -> 2
      [] r \in {"in-resolve", "in-direction"} -> 3
      [] r = "self" -> 4
      [] r = "connected" -> 5
      [] r = "duplicate" -> 6
      [] r = "assignable" -> 7
      [] OTHER -> 0

\* The place of a rule when both sides resolve first, the self check follows
\* and the directions are checked after it.
ResolveFirstRank(r) ==
    CASE r = "nil" -> 1
      [] r = "out-resolve" -> 2
      [] r = "in-resolve" -> 3
      [] r = "self" -> 4
      [] r = "out-direction" -> 5
      [] r = "in-direction" -> 6
      [] r = "connected" -> 7
      [] r = "duplicate" -> 8
      [] r = "assignable" -> 9
      [] OTHER -> 0

\* C1: after any sequence of calls, the connections held in the Connections
\* lists of the boundary ios and of the component ios are exactly the
\* connections of the connection index.
C1_PortsMatchIndex == Held = Indexed

\* C2: whenever a call returns an error, the graph (boundary io list,
\* components, every io's connection list and name, the connection index) is
\* the same as before the call.
C2_ErrorLeavesGraphUnchanged ==
    [][last'.err # "" => UNCHANGED graph]_vars

\* C3: DeleteConnection with the id of a connection of the index returns no
\* error and leaves the connection absent from the out io's list, from the in
\* io's list and from the index, with the in io's name empty; it fails only
\* for an unknown id.
C3_DeleteKnownConnection ==
    [][last'.op = "DeleteConnection" =>
        IF last'.arg \in DOMAIN connectionIndex
        THEN LET conn == connectionIndex[last'.arg] IN
             /\ last'.err = ""
             /\ conn \notin Range(Connections'[conn.OutComponentIOID])
             /\ conn \notin Range(Connections'[conn.InComponentIOID])
             /\ last'.arg \notin DOMAIN connectionIndex'
             /\ Name'[conn.InComponentIOID] = ""
        ELSE last'.err # ""]_vars

\* C4: a successful ConnectComponent creates exactly one new connection, the
\* one requested; it is then the last element of the out io's list, is in the
\* in io's list and in the index under its id; the in io takes the out io's
\* name and nothing else in the graph changes.
C4_ConnectEffect ==
    [][(last'.op = "ConnectComponent" /\ last'.err = "") =>
        LET new == (HeldAnywhere' \cup Indexed') \ (HeldAnywhere \cup Indexed)
        IN
        /\ Cardinality(new) = 1
        /\ \A conn \in new :
            LET out == conn.OutComponentIOID
                in == conn.InComponentIOID
            IN
            /\ \E r \in Requests :
                /\ ConnectComponent(r[1], r[2], r[3], r[4])
                /\ <<conn.OutComponentID, out, conn.InComponentID, in>> = r
            /\ Len(Connections'[out]) = Len(Connections[out]) + 1
            /\ Connections'[out][Len(Connections'[out])] = conn
            /\ SubSeq(Connections'[out], 1, Len(Connections[out]))
                    = Connections[out]
            /\ Connections'[in] = Connections[in] \o <<conn>>
            /\ DOMAIN connectionIndex'
                    = DOMAIN connectionIndex \cup {conn.ID}
            /\ connectionIndex'[conn.ID] = conn
            /\ \A i \in DOMAIN connectionIndex :
                    connectionIndex'[i] = connectionIndex[i]
            /\ Name'[in] = Name[out]
            /\ \A p \in Ports \ {in} : Name'[p] = Name[p]
            /\ \A p \in Ports \ {in, out} : Connections'[p] = Connections[p]
            /\ UNCHANGED <<IOs, Components, ParentID>>]_vars

\* C4 witness: a connect has succeeded on an out io that then holds two
\* connections.
C4_Witness ==
    /\ last.op = "ConnectComponent"
    /\ last.err = ""
    /\ \E p \in Producers : Len(Connections[p]) >= 2

\* C5: every consuming io holds at most one connection; a ConnectComponent
\* whose in io already holds a connection fails, with the already-connected
\* error once the ids are non-nil, both sides resolve, the owners differ and
\* the directions are right.
C5_SingleWriter ==
    /\ \A p \in Consumers : Len(Connections[p]) <= 1
    /\ (last.op = "ConnectComponent" /\ "connected" \in last.rules) =>
        /\ last.err # ""
        /\ (last.rules \cap {"nil", "out-resolve", "in-resolve", "self",
                             "out-direction", "in-direction"} = {}
                => last.err = ErrAlreadyConnected)

\* C5 witness: a connect was refused because its in io is connected, while a
\* producing io holds two connections.
C5_Witness ==
    /\ last.op = "ConnectComponent"
    /\ last.err = ErrAlreadyConnected
    /\ \E p \in Producers : Len(Connections[p]) >= 2

\* C6: DeleteIO of a known boundary io fails if it holds a connection and
\* otherwise removes it, keeping the order of the others; DeleteComponent of a
\* registered component fails with the has-connections error if any of its
\* ios, IN or OUT, holds a connection and otherwise removes the component.
C6_DeleteGuards ==
    [][/\ (last'.op = "DeleteIO" /\ last'.arg \in Range(IOs)) =>
            IF Len(Connections[last'.arg]) > 0
            THEN last'.err # "" /\ UNCHANGED graph
            ELSE /\ last'.err = ""
                 /\ \E k \in DOMAIN IOs :
                        /\ IOs[k] = last'.arg
                        /\ IOs' = SubSeq(IOs, 1, k - 1)
                                    \o SubSeq(IOs, k + 1, Len(IOs))
                 /\ UNCHANGED <<Components, Name, Connections,
                                connectionIndex, ParentID>>
       /\ (last'.op = "DeleteComponent" /\ last'.arg \in Components) =>
            IF \E p \in Range(CompIOs[last'.arg]) : Len(Connections[p]) > 0
            THEN last'.err = ErrComponentHasConnections /\ UNCHANGED graph
            ELSE /\ last'.err = ""
                 /\ Components' = Components \ {last'.arg}
                 /\ UNCHANGED <<IOs, Name, Connections,
                                connectionIndex, ParentID>>
      ]_vars

\* C6 witness: DeleteComponent was refused for a registered component whose
\* only connections are on an OUT io.
C6_Witness ==
    /\ last.op = "DeleteComponent"
    /\ last.err = ErrComponentHasConnections
    /\ last.arg \in Components
    /\ \A p \in Range(CompIOs[last.arg]) :
            Len(Connections[p]) > 0 => Type[p] = ComponentIOTypeOUT

\* C7: DeleteComponent with a non-nil id that is not registered returns an
\* error.
C7_DeleteUnknownComponentFails ==
    [][(/\ last'.op = "DeleteComponent"
        /\ last'.arg # Nil
        /\ last'.arg \notin Components) => last'.err # ""]_vars

\* C8 as stated: a refused request that breaks several rules gets the error of
\* the earliest broken rule in the order nil id, out side resolves with the
\* right direction, in side resolves with the right direction, self
\* connection, in io connected, duplicate edge, type not assignable.
C8_StatedOrder ==
    (last.op = "ConnectComponent" /\ Cardinality(last.rules) > 1) =>
        \A r \in last.rules : StatedRank(ErrRule(last.err)) <= StatedRank(r)

\* C8 amended: the error is that of the earliest broken rule in the order nil
\* id, out side resolves, in side resolves, self connection, out direction,
\* in direction, in io connected, duplicate edge, type not assignable.
C8_ResolveFirstOrder ==
    (last.op = "ConnectComponent" /\ Cardinality(last.rules) > 1) =>
        /\ ErrRule(last.err) \in last.rules
        /\ \A r \in last.rules :
                ResolveFirstRank(ErrRule(last.err)) <= ResolveFirstRank(r)

\* C8 witness: a request on one owner with an out io of the wrong direction
\* was refused as a self connection.
C8_Witness ==
    /\ last.op = "ConnectComponent"
    /\ last.err = ErrSelf
    /\ "out-direction" \in last.rules

\* C9: ConnectComponent with equal out and in component ids whose ios both
\* exist on that owner fails with the cannot-connect-to-itself error whatever
\* the directions and types, and no connection has the same out and in
\* component.
C9_NoSelfConnection ==
    /\ \A conn \in HeldAnywhere \cup Indexed :
            conn.OutComponentID # conn.InComponentID
    /\ (/\ last.op = "ConnectComponent"
        /\ "self" \in last.rules
        /\ last.rules \cap {"nil", "out-resolve", "in-resolve"} = {})
            => last.err = ErrSelf

\* C9 witness: a request from the flo to the flo with ios of unassignable
\* types was refused as a self connection.
C9_Witness ==
    /\ last.op = "ConnectComponent"
    /\ last.err = ErrSelf
    /\ "assignable" \in last.rules
    /\ HeldAnywhere # {}

\* C10: ConnectComponent fails and creates no connection when the out io or
\* the in io has the wrong direction for its owner or the out type is not
\* assignable to the in type; every connection joins a producing io to a
\* consuming io of an assignable type.
C10_ProducerToConsumer ==
    /\ [](\A conn \in HeldAnywhere \cup Indexed :
            /\ IsProducer(conn.OutComponentID, conn.OutComponentIOID)
            /\ IsConsumer(conn.InComponentID, conn.InComponentIOID)
            /\ AssignableTo(RType[conn.OutComponentIOID],
                            RType[conn.InComponentIOID]))
    /\ [][(/\ last'.op = "ConnectComponent"
           /\ last'.rules \cap {"out-direction", "in-direction",
                                "assignable"} # {})
            => (last'.err # "" /\ UNCHANGED graph)]_vars

\* C10 witness: with a connection in place, a request with the right
\* directions was refused because the types are not assignable.
C10_Witness ==
    /\ last.op = "ConnectComponent"
    /\ last.err = ErrNotAssignable
    /\ HeldAnywhere # {}

\* The components whose OUT ios feed an IN io of component c through a
\* connection c's io holds.
UpstreamOf(c) ==
    UNION {{conn.OutComponentID : conn \in Range(Connections[p])} :
                p \in {q \in Range(CompIOs[c]) :
                            Type[q] = ComponentIOTypeIN}} \ {FloID}

\* The components that reach one of S along n or fewer connections.
RECURSIVE Ancestors(_, _)
Ancestors(S, n) ==
    IF n = 0 THEN S
    ELSE Ancestors(S \cup UNION {UpstreamOf(c) : c \in S \cap CompIDs}, n - 1)

\* A registered component feeds itself through a chain of connections.
Cyclic ==
    \E c \in Components :
        c \in Ancestors(UpstreamOf(c), Cardinality(CompIDs))

\* C11: ConnectComponent refuses every connection that would close a directed
\* cycle, so the component-to-component connection graph is always acyclic.
C11_Acyclic == ~Cyclic

\* The components of the calls Render emitted, in order.
Emitted == [i \in DOMAIN last.out.calls |-> last.out.calls[i].comp]

\* The place of component c among the emitted calls, 0 when it has none.
PlaceOf(c) ==
    IF \E i \in DOMAIN Emitted : Emitted[i] = c
    THEN CHOOSE i \in DOMAIN Emitted : Emitted[i] = c
    ELSE 0

\* C12: on a graph whose component-to-component connections have no cycle
\* Render returns and emits the call of every registered component exactly
\* once.
C12_EachOnce ==
    (last.op = "Render" /\ ~Cyclic) =>
        /\ last.err = ""
        /\ Len(Emitted) = Cardinality(Components)
        /\ \A c \in Components : \E i \in DOMAIN Emitted : Emitted[i] = c

\* C12 witness: a render emitted two components, one of them as the upstream
\* dependency of the other.
C12_Witness ==
    /\ last.op = "Render"
    /\ last.err = ""
    /\ Len(Emitted) = 2
    /\ \E c \in Components : UpstreamOf(c) # {}

\* C13: in the calls Render emits, the call of P comes before the call of Q
\* for every connection from an OUT io of P to an IN io of Q.
C13_DependencyFirst ==
    (last.op = "Render" /\ last.err = "") =>
        \A q \in Components : \A p \in UpstreamOf(q) :
            /\ PlaceOf(p) > 0
            /\ PlaceOf(p) < PlaceOf(q)

\* C15: two Render calls in a row on the same graph emit the same calls.
C15_Deterministic ==
    [][(last.op = "Render" /\ last'.op = "Render") => last'.out = last.out]_vars

\* A connection held by an io of the graph names a component that is neither
\* the flo nor registered.
GhostHeld ==
    \E conn \in Held :
        \/ conn.OutComponentID \notin {FloID} \cup Components
        \/ conn.InComponentID \notin {FloID} \cup Components

\* C19: when a held connection names a component that is neither the flo nor
\* registered, Render returns an error.
C19_GhostFailsRender ==
    (last.op = "Render" /\ GhostHeld) => last.err # ""

\* C13 witness: a render reached B through the boundary and emitted A, which
\* feeds B's second IN io.
C13_Witness ==
    /\ last.op = "Render"
    /\ last.err = ""
    /\ \E conn \in Range(Connections["b_j"]) : conn.OutComponentID = "A"
    /\ \E conn \in Range(ConnsOf(INsOf(IOs))) : conn.InComponentID = "B"
    /\ Emitted = <<"A", "B">>

\* The components that consume a connection of a boundary IN io.
BoundaryFed == {conn.InComponentID : conn \in Range(ConnsOf(INsOf(IOs)))}

\* The components an OUT io of component c feeds.
DownstreamOf(c) ==
    UNION {{conn.InComponentID : conn \in Range(Connections[p])} :
                p \in {q \in Range(CompIOs[c]) :
                            Type[q] = ComponentIOTypeOUT}} \ {FloID}

\* The components reached from one of S along n or fewer connections.
RECURSIVE Descendants(_, _)
Descendants(S, n) ==
    IF n = 0 THEN S
    ELSE Descendants(S \cup UNION {DownstreamOf(c) : c \in S \cap CompIDs},
                     n - 1)

\* The components reachable from a boundary IN io along connections.
ForwardReachable == Descendants(BoundaryFed, Cardinality(CompIDs))

\* The components the first loop of Render asks for: the consumers of the
\* boundary and everything upstream of them.
BoundaryDriven == Ancestors(BoundaryFed, Cardinality(CompIDs))

\* C14 as stated: every component reachable forward from a boundary IN io is
\* emitted before every component that is not.
C14_ReachableFirst ==
    (last.op = "Render" /\ last.err = "") =>
        \A r \in Components \cap ForwardReachable :
            \A o \in Components \ ForwardReachable :
                PlaceOf(r) < PlaceOf(o)

\* C14 amended: every component that consumes a boundary IN connection or is
\* upstream of such a component is emitted before every other component.
C14_BoundaryDrivenFirst ==
    (last.op = "Render" /\ last.err = "") =>
        \A d \in Components \cap BoundaryDriven :
            \A o \in Components \ BoundaryDriven :
                /\ PlaceOf(d) > 0
                /\ PlaceOf(d) < PlaceOf(o)

\* C14 witness: a render emitted the consumer of a boundary IN before a
\* component that is neither fed by the boundary nor upstream of it.
C14_Witness ==
    /\ last.op = "Render"
    /\ last.err = ""
    /\ Components \cap BoundaryDriven # {}
    /\ Components \ BoundaryDriven # {}
    /\ Len(Emitted) = 2

C18_AddComponent ==
    [][(last'.op = "AddComponent" /\ last'.arg # Nil) =>
        IF last'.arg \in Components
        THEN /\ last'.err = ErrComponentExists
             /\ UNCHANGED graph
        ELSE /\ last'.err = ""
             /\ Components' = Components \cup {last'.arg}
             /\ UNCHANGED <<IOs, Name, Connections, connectionIndex,
                            ParentID>>]_vars

\* C18 witness: a component whose ios hold a connection was added again and
\* refused.
C18_Witness ==
    /\ last.op = "AddComponent"
    /\ last.err = ErrComponentExists
    /\ HasConnections(CompIOs[last.arg])

\* C20: every connection held by an io of the graph names on each side the
\* flo or a registered component, and an io that owner currently has.
C20_NoDangling ==
    \A conn \in Held :
        /\ conn.OutComponentID \in {FloID} \cup Components
        /\ conn.OutComponentIOID \in Range(OwnerIOs(conn.OutComponentID))
        /\ conn.InComponentID \in {FloID} \cup Components
        /\ conn.InComponentIOID \in Range(OwnerIOs(conn.InComponentID))

\* Goroutine t is at the statements of its method that use the graph.
InSection(t) == pc[t].at = "body"

\* C16: a goroutine is in the graph-using statements of a method only while
\* the mutex is locked, and no two goroutines are there at the same time.
C16_MutualExclusion ==
    /\ \A t \in Threads : InSection(t) => mu
    /\ \A t, u \in Threads : (InSection(t) /\ InSection(u)) => t = u

\* C21: DeleteConnection of the connection the preceding successful
\* ConnectComponent created succeeds and puts back the connection lists, the
\* index and the name of the in io as they were before the connect.
C21_ConnectThenDelete ==
    [][(/\ last.op = "ConnectComponent"
        /\ last.err = ""
        /\ last'.op = "DeleteConnection"
        /\ last'.arg = last.made.ID) =>
            LET conn == connectionIndex[last.made.ID] IN
            /\ last'.err = ""
            /\ Connections' =
                  [Connections EXCEPT
                      ![conn.OutComponentIOID] = SubSeq(@, 1, Len(@) - 1),
                      ![conn.InComponentIOID] = <<>>]
            /\ connectionIndex' = DeleteFromIndex(conn.ID)
            /\ Name' = [Name EXCEPT ![conn.InComponentIOID] = last.made.was]
            /\ UNCHANGED <<IOs, Components, ParentID>>]_vars

\* The OUT ios of component c that are error-like.
ErrorOUTs(c) == {p \in Range(CompIOs[c]) :
                    Type[p] = ComponentIOTypeOUT /\ IsError(p)}

\* C22 as stated: the call of a component is followed by a guard exactly when
\* the component has an error-like OUT io, connected or not, and the guard
\* returns err for the flo's error-like OUT and the zero value for its others.
C22_GuardForErrorOUT ==
    (last.op = "Render" /\ last.err = "") =>
        \A i \in DOMAIN last.out.calls :
            LET call == last.out.calls[i] IN
            /\ call.guard.has = (ErrorOUTs(call.comp) # {})
            /\ call.guard.has => call.guard.returns = GuardReturns

\* The types of the flo's OUT ios in insertion order.
OUTTypes == [i \in DOMAIN OUTsOf(IOs) |-> RType[OUTsOf(IOs)[i]]]

\* C23: the return clause of a rendered function lists the type of each flo
\* OUT io exactly once in insertion order: nothing without an OUT io, the
\* bare type with one, a parenthesised list with two or more.
C23_ReturnClause ==
    (last.op = "Render" /\ last.err = "") =>
        last.out.clause =
            IF Len(OUTTypes) = 0 THEN <<>>
            ELSE <<[paren |-> Len(OUTTypes) > 1, types |-> OUTTypes]>>

\* Goroutine t is blocked in, or about to call, f.mu.Lock().
Waiting(t) == pc[t].at = "lock"

\* Goroutine t has locked the mutex and not yet returned.
Holding(t) == pc[t].at = "body" /\ pc[t].m \in LockingMethods

\* C24: the return of a locking method leaves the mutex unlocked, the mutex
\* is locked only while some goroutine is between the Lock() and the return
\* of a locking method, and under fair scheduling every goroutine waiting
\* for the mutex comes to hold it.
C24_LockReleased ==
    /\ [][\A t \in Threads : (Holding(t) /\ pc'[t] = Idle) => ~mu']_vars
    /\ [](mu => \E t \in Threads : Holding(t))
    /\ \A t \in Threads : Waiting(t) ~> Holding(t)

\* A goroutine waits for the mutex while another holds it.
C24_Witness ==
    \E t, u \in Threads : Waiting(t) /\ Holding(u) /\ mu

\* The names the emitted function's parameter list binds: those of the flo's
\* connected IN ios.
Params ==
    {Name[p] : p \in {q \in Range(INsOf(IOs)) : Len(Connections[q]) > 0}}

\* The names the first n emitted calls assign.
Assigned(calls, n) ==
    {calls[i].results[j] :
        <<i, j>> \in {x \in (1..n) \X (1..3) :
                        x[2] \in DOMAIN calls[x[1]].results}} \ {"_", "err"}

\* Every live consuming io that holds a connection has the name its producer
\* io has now.
NamesAgree ==
    \A p \in LivePorts \cap Consumers :
        \A conn \in Range(Connections[p]) :
            conn.OutComponentIOID \in Ports =>
                Name[p] = Name[conn.OutComponentIOID]

\* C25: every consuming io that holds a connection has the name of its
\* producer io, and in a rendered function every connected IN of a called
\* component, and every connected OUT of the flo, reads a name that a
\* parameter or an earlier call has assigned.
C25_ConsumerReadsProducer ==
    /\ NamesAgree
    /\ (last.op = "Render" /\ last.err = "") =>
          LET calls == last.out.calls IN
          /\ \A i \in DOMAIN calls :
                \A p \in Range(INsOf(CompIOs[calls[i].comp])) :
                    Len(Connections[p]) > 0 =>
                        Name[p] \in Params \cup Assigned(calls, i - 1)
          /\ \A p \in Range(OUTsOf(IOs)) :
                Len(Connections[p]) > 0 =>
                    Name[p] \in Params \cup Assigned(calls, Len(calls))

\* C26: no two boundary ios of the flo have the same name and the same type
\* (IN or OUT).
C26_UniqueBoundaryNames ==
    \A i, j \in DOMAIN IOs :
        (Name[IOs[i]] = Name[IOs[j]] /\ Type[IOs[i]] = Type[IOs[j]]) => i = j

\* C27: a Render step, successful or failing, leaves the flo's ios, the
\* components, the names and connection lists of the ios and the connection
\* index as they were.
C27_RenderFrame ==
    [][last'.op = "Render" =>
          /\ IOs' = IOs
          /\ Components' = Components
          /\ Name' = Name
          /\ Connections' = Connections
          /\ connectionIndex' = connectionIndex]_vars

\* A Render has failed on a graph whose ios hold connections.
C27_Witness ==
    /\ last.op = "Render"
    /\ last.err # ""
    /\ Held # {}
    /\ DOMAIN connectionIndex # {}
====
